---- MODULE Spec2Model ----
(***************************************************************************)
(* A model of linak_dpg_bt: the BTLEConnection wrapper (connection.py) and *)
(* the LinakDesk device object (linak_device.py) with its movement         *)
(* threads.                                                                *)
(*                                                                         *)
(* Threads.  The caller ("main") executes one public method at a time,     *)
(* statement by statement (mpc).  Every started movement i owns a          *)
(* threading.Thread running _process_movement (loop[i]) and a              *)
(* threading.Timer whose function is stop_movement (timer[i]).  All of     *)
(* them share the LinakDesk fields without any lock, so the model          *)
(* interleaves them at statement granularity.                              *)
(*                                                                         *)
(* Optional values (Python None) are sequences of length 0 or 1.           *)
(* A DeskPosition is identified with its raw value.                        *)
(***************************************************************************)
EXTENDS Integers, Sequences, FiniteSets, TLC

\* ------------------------------------------------------------- bounds
\* Movements that may be started in one behaviour (thread / timer ids).
MaxMoves == 2
\* Memory-position replies counted within one round of favourites.
MaxReplies == 3
\* Sessions (with blocks) a behaviour of the connection may begin.
MaxSessions == 3

\* ------------------------------------------------- program constants
MOVE_THRESHOLD == 10
HEIGHT_MIN == 0
HEIGHT_MAX == 64
\* speed.parsed < 0.001, in thousandths
STOPPED_THRESHOLD_MILLI == 1
\* raw units per centimetre (DeskPosition.raw_from_cm)
RawPerCm == 100
\* linak_device.py:187  for _ in range(0, 100)
WAIT_ATTEMPTS == 100

None == <<>>
Some(v) == <<v>>
Val(o) == o[1]

Abs(x) == IF x < 0 THEN -x ELSE x

\* ------------------------------------------------------ input domains
\* raw heights the telemetry may report, speeds (thousandths) it may report
Heights == {5, 20}
Speeds == {0, 5}
\* raw targets a caller of move_to_cm may ask for
CmTargets == {20}
\* raw positions a memory-position reply may carry
FavRaws == {20}
\* raw positions the replies of a query round may carry
ReplyRaws == {20, 30}
\* fields a caller may wait for through a blocking accessor
WaitFields == {"_desk_offset", "_fav_position_1", "_fav_position_2", "_height_speed"}
\* linak_device.py:39-42: the notification registry, in registration order
Handlers == <<"REFERENCE_OUTPUT_HANDLE", "DPG_COMMAND_HANDLE">>
\* desk offsets (raw) a DeskOffset reply may carry
OffsetRaws == {10}
\* favourite numbers a caller may pass to move_to_fav
FavSlots == {1, 2, 3}

Moves == 1..MaxMoves

VARIABLES
    \* LinakDesk fields populated from the device
    deskOffset, fav1, fav2, heightSpeed,
    \* LinakDesk movement fields: _target, _running, _manual_height_change,
    \* _stop_timer (0: None, else the id of the Timer object)
    target, running, manual, stopTimer,
    \* the caller: position, argument, public method, its outcome
    mpc, marg, mop, mres,
    \* movements started so far; per movement its thread and its Timer
    nmoves, loop, timer,
    \* history: the public method that started the current movement
    startedBy,
    \* BTLEConnection: _conn ("None" or "Peripheral"), whether that Peripheral is
    \* connected to the device, the handles subscribed on the connection
    conn, linkUp, subs,
    \* the user of the connection: position, the sessions (with blocks) begun
    lpc, nsess,
    \* history of the current __enter__ call: transport connect attempts made,
    \* whether one succeeded, whether the link was up at the call, the outcome
    attempts, attOk, wasUp, lres,
    \* history of the last __exit__: how the block was left and how often the
    \* transport's disconnect ran for it
    exitKind, ndisc,
    \* the caller of a query or of a blocking accessor: position, the field
    \* waited for, polls made, the outcome and the value returned
    qpc, qop, wvar, wtries, wres, wval,
    \* history: the memory-position replies handled since the favourites were
    \* last both unset, and whether that count is running
    round, inRound

deskVars == <<deskOffset, fav1, fav2, heightSpeed>>
moveVars == <<target, running, manual, stopTimer>>
mainVars == <<mpc, marg, mop, mres>>
threadVars == <<nmoves, loop, timer>>
histVars == <<startedBy>>
linkVars == <<conn, linkUp, subs, lpc, nsess, attempts, attOk, wasUp, lres, exitKind, ndisc>>
waitVars == <<qpc, qop, wvar, wtries, wres, wval>>
roundVars == <<round, inRound>>
movementVars == <<moveVars, mainVars, threadVars, histVars>>
vars == <<deskVars, moveVars, mainVars, threadVars, histVars, linkVars, waitVars, roundVars>>

\* ------------------------------------------------------ pure helpers
\* DeskPosition.raw_from_cm
RawFromCm(cm) == cm * RawPerCm

\* A variant of IsNoop that skips the move only at the exact height.
IsNoopExact(raw, cur) == raw = cur

\* linak_device.py:235  abs(raw_value - current_raw_height) < 10
IsNoop(raw, cur) == Abs(raw - cur) < MOVE_THRESHOLD

\* linak_device.py:255  self.height_speed.speed.parsed < 0.001
Stalled(hs) == hs.speed < STOPPED_THRESHOLD_MILLI

\* threading.Timer.cancel() sets the Timer's `finished` event: a Timer that is
\* still waiting never runs its function, one that is running it is unaffected
Cancel(tm, j) == IF tm[j] = "waiting" THEN [tm EXCEPT ![j] = "finished"] ELSE tm

\* target_height's first component: the DeskPosition whose cm is reported
TargetCm ==
    IF ~running THEN None
    ELSE IF ~manual THEN target ELSE None

\* A variant of DirectionUp that also reports "up" at the target's height.
DirectionUpOrLevel == Val(target) >= Val(heightSpeed).height

\* linak_device.py:96, 74-78: self._target.raw > self.current_height.raw;
\* while running, current_height is the stored telemetry's height
DirectionUp == Val(target) > Val(heightSpeed).height

\* linak_device.py:92-103  target_height: the pair it returns
TargetHeight ==
    IF ~running THEN <<None, None>> ELSE <<TargetCm, Some(DirectionUp)>>

\* A variant of DisconnectEffect that forgets to reset _conn.
DisconnectEffectKeepsConn ==
    IF conn # "None" THEN <<conn, FALSE, <<>>, 1>> ELSE <<conn, linkUp, subs, 0>>

\* connection.py:69-72  disconnect(): <<_conn, link up, subscriptions, number
\* of transport disconnects made>> after the call
DisconnectEffect ==
    IF conn # "None"
      THEN <<"None", FALSE, <<>>, 1>>
      ELSE <<conn, linkUp, subs, 0>>

\* ---------------------------------------------------------------- Init
MoveInit ==
    /\ target = None /\ running = FALSE /\ manual = FALSE /\ stopTimer = 0
    /\ mpc = "idle" /\ marg = 0 /\ mop = "none" /\ mres = "none"
    /\ nmoves = 0
    /\ loop = [i \in Moves |-> "none"]
    /\ timer = [i \in Moves |-> "none"]
    /\ startedBy = "none"

DeskInit ==
    /\ deskOffset = None /\ fav1 = None /\ fav2 = None /\ heightSpeed = None

\* connection.py:26-32
LinkInit ==
    /\ conn = "None" /\ linkUp = FALSE /\ subs = <<>>
    /\ lpc = "out" /\ nsess = 0
    /\ attempts = 0 /\ attOk = FALSE /\ wasUp = FALSE /\ lres = "none"
    /\ exitKind = "none" /\ ndisc = 0

WaitInit ==
    /\ qpc = "idle" /\ qop = "none" /\ wvar = "none" /\ wtries = 0
    /\ wres = "none" /\ wval = None
    /\ round = <<>> /\ inRound = TRUE

Init == DeskInit /\ MoveInit /\ LinkInit /\ WaitInit

\* ------------------------------------------------ notification handlers
\* linak_device.py:200-218 with data[0] = 0x01: the effect of a decoded DPG
\* reply of class cls carrying the position `off` on the desk fields
\* <<deskOffset, fav1, fav2>>.
DpgReplyEffect(cls, off) ==
    IF cls = "DeskOffsetCommand" THEN <<Some(off), fav1, fav2>>
    ELSE IF cls = "MemorySetting2Command" THEN
        IF fav1 = None THEN <<deskOffset, Some(off), fav2>>
        ELSE <<deskOffset, fav1, Some(off)>>
    ELSE <<deskOffset, fav1, fav2>>

\* The count of memory-position replies of a round: it starts when both
\* favourites are unset and stops when a query round begins to clear them anew.
RoundAfterReply(cls, off) ==
    IF cls = "MemorySetting2Command" /\ inRound THEN Append(round, off) ELSE round

\* linak_device.py:200-218: a well-formed DPG notification is handled
HandleDpgNotification(cls, off) ==
    /\ (cls = "MemorySetting2Command" /\ inRound) => Len(round) < MaxReplies
    /\ LET e == DpgReplyEffect(cls, off) IN
         deskOffset' = e[1] /\ fav1' = e[2] /\ fav2' = e[3]
    /\ round' = RoundAfterReply(cls, off)
    /\ UNCHANGED <<heightSpeed, inRound>>

\* A DeskOffset reply arrives while the movement machinery runs.
NotifyDeskOffset ==
    /\ \E off \in OffsetRaws : HandleDpgNotification("DeskOffsetCommand", off)
    /\ UNCHANGED <<linkVars, waitVars, movementVars>>

\* A memory-position reply arrives while the movement machinery runs.
NotifyMemory ==
    /\ \E off \in FavRaws : HandleDpgNotification("MemorySetting2Command", off)
    /\ UNCHANGED <<linkVars, waitVars, movementVars>>

\* ------------------------------------------------------- the caller
\* Atomicity.  A step is one access to the shared LinakDesk fields together
\* with the thread-local statements around it.  stop_movement is two steps:
\* lines 168-169 (the flags) and line 170 (the cancel of whichever Timer
\* _stop_timer names at that moment), so that another thread may run between
\* them.  When a call returns, mres holds its outcome and marg, mop are reset.

MayMove == mpc = "idle" /\ nmoves < MaxMoves

\* linak_device.py:153-155  move_to_cm(cm), cm given by the raw value it
\* converts to; self._desk_offset.cm raises AttributeError while the offset is
\* None
CallMoveToCm ==
    /\ MayMove
    /\ IF deskOffset = None
         THEN /\ mpc' = "idle" /\ mres' = "AttributeError"
              /\ marg' = 0 /\ mop' = "none"
         ELSE /\ mpc' = "mv_test" /\ mres' = "none"
              /\ \E raw \in CmTargets : marg' = raw
              /\ mop' = "move_to_cm"
    /\ UNCHANGED <<linkVars, waitVars, roundVars, deskVars, moveVars, threadVars, histVars>>

\* linak_device.py:157-163  move_down() / move_up(): the manual flag is set
\* first, then move_to_cm(offset + HEIGHT_MIN / HEIGHT_MAX)
CallMoveManual ==
    /\ MayMove
    /\ manual' = TRUE
    /\ IF deskOffset = None
         THEN /\ mpc' = "idle" /\ mres' = "AttributeError"
              /\ marg' = 0 /\ mop' = "none"
         ELSE /\ mpc' = "mv_test" /\ mres' = "none"
              /\ \E cm \in {HEIGHT_MIN, HEIGHT_MAX} : marg' = RawFromCm(cm)
              /\ mop' = "move_manual"
    /\ UNCHANGED <<linkVars, waitVars, roundVars, deskVars, target, running, stopTimer, threadVars, histVars>>

\* move_to_fav(fav) is called
CallMoveToFav ==
    /\ MayMove
    /\ \E slot \in FavSlots : marg' = slot
    /\ mpc' = "fav" /\ mop' = "move_to_fav" /\ mres' = "none"
    /\ UNCHANGED <<linkVars, waitVars, roundVars, deskVars, moveVars, threadVars, histVars>>

\* A variant of FavField that takes every number but 1 for favourite 2.
FavFieldNoCheck(slot) ==
    IF slot = 1 THEN "_fav_position_1" ELSE "_fav_position_2"

\* linak_device.py:173-178: the field move_to_fav reads for a favourite number
FavField(slot) ==
    IF slot = 1 THEN "_fav_position_1"
    ELSE IF slot = 2 THEN "_fav_position_2"
    ELSE "invalid"

\* getattr(self, name)
GetAttr(name) ==
    CASE name = "_fav_position_1" -> fav1
      [] name = "_fav_position_2" -> fav2
      [] name = "_desk_offset" -> deskOffset
      [] name = "_height_speed" -> heightSpeed
      [] OTHER -> None

\* linak_device.py:172-180.  The favourite is read through the blocking
\* accessor: while it is None the caller waits, and gives up with the
\* accessor's DPGCommandReadError('Cannot fetch value ...').
FavResolve ==
    /\ mpc = "fav"
    /\ LET f == FavField(marg) IN
       IF f = "invalid"
         THEN /\ mpc' = "idle" /\ mres' = "DPGCommandReadError:favorite"
              /\ marg' = 0 /\ mop' = "none"
         ELSE IF GetAttr(f) = None
           THEN /\ mpc' = "idle" /\ mres' = "DPGCommandReadError:fetch"
                /\ marg' = 0 /\ mop' = "none"
           ELSE /\ mpc' = "mv_test" /\ mres' = mres
                /\ marg' = Val(GetAttr(f)) /\ mop' = mop
    /\ UNCHANGED <<linkVars, waitVars, roundVars, deskVars, moveVars, threadVars, histVars>>

\* linak_device.py:231-232 with 168-169:  if self._running: stop_movement()
MvTest ==
    /\ mpc = "mv_test"
    /\ IF running
         THEN running' = FALSE /\ manual' = FALSE /\ mpc' = "mv_stop3"
         ELSE running' = running /\ manual' = manual /\ mpc' = "mv_height"
    /\ UNCHANGED <<linkVars, waitVars, roundVars, deskVars, target, stopTimer, marg, mop, mres, threadVars, histVars>>

\* linak_device.py:170 inside _move_to_raw (a movement was running, so
\* _stop_timer is a Timer)
MvStop3 ==
    /\ mpc = "mv_stop3"
    /\ timer' = Cancel(timer, stopTimer)
    /\ mpc' = "mv_height"
    /\ UNCHANGED <<linkVars, waitVars, roundVars, deskVars, moveVars, marg, mop, mres, nmoves, loop, histVars>>

\* linak_device.py:234-237: the current height through the blocking accessor
\* (DPGCommandReadError while _height_speed stays None), then the threshold
MvHeight ==
    /\ mpc = "mv_height"
    /\ IF heightSpeed = None
         THEN /\ mpc' = "idle" /\ mres' = "DPGCommandReadError:fetch"
              /\ marg' = 0 /\ mop' = "none"
         ELSE IF IsNoop(marg, Val(heightSpeed).height)
           THEN /\ mpc' = "idle" /\ mres' = "noop"
                /\ marg' = 0 /\ mop' = "none"
           ELSE /\ mpc' = "mv_run" /\ mres' = mres
                /\ marg' = marg /\ mop' = mop
    /\ UNCHANGED <<linkVars, waitVars, roundVars, deskVars, moveVars, threadVars, histVars>>

\* linak_device.py:239-240: the controller enters Moving; the movement gets
\* the next id
MvRun ==
    /\ mpc = "mv_run"
    /\ target' = Some(marg)
    /\ running' = TRUE
    /\ nmoves' = nmoves + 1
    /\ startedBy' = mop
    /\ mpc' = "mv_timer"
    /\ UNCHANGED <<linkVars, waitVars, roundVars, deskVars, manual, stopTimer, marg, mop, mres, loop, timer>>

\* linak_device.py:242-247: a new Timer replaces _stop_timer and is started,
\* the polling thread is started, _move_to_raw returns
MvTimer ==
    /\ mpc = "mv_timer"
    /\ stopTimer' = nmoves
    /\ timer' = [timer EXCEPT ![nmoves] = "waiting"]
    /\ loop' = [loop EXCEPT ![nmoves] = "while"]
    /\ mpc' = "idle" /\ mres' = "started" /\ marg' = 0 /\ mop' = "none"
    /\ UNCHANGED <<linkVars, waitVars, roundVars, deskVars, target, running, manual, nmoves, histVars>>

\* linak_device.py:165-169: stop_movement() called by the caller
CallStop ==
    /\ mpc = "idle"
    /\ running' = FALSE
    /\ manual' = FALSE
    /\ mpc' = "stop3" /\ mop' = "stop_movement" /\ mres' = "none"
    /\ UNCHANGED <<linkVars, waitVars, roundVars, deskVars, target, stopTimer, marg, threadVars, histVars>>

\* linak_device.py:170  self._stop_timer.cancel(); _stop_timer is None until
\* the first movement has been started (line 56)
Stop3 ==
    /\ mpc = "stop3"
    /\ IF stopTimer = 0
         THEN mres' = "AttributeError" /\ timer' = timer
         ELSE mres' = "ok" /\ timer' = Cancel(timer, stopTimer)
    /\ mpc' = "idle" /\ mop' = "none"
    /\ UNCHANGED <<linkVars, waitVars, roundVars, deskVars, moveVars, marg, nmoves, loop, histVars>>

\* linak_device.py:74-78, 126-129: current_height while idle reads the telemetry
CallCurrentHeight ==
    /\ mpc = "idle" /\ ~running
    /\ \E h \in Heights, s \in Speeds :
         heightSpeed' = Some([height |-> h, speed |-> s])
    /\ mres' = "ok"
    /\ UNCHANGED <<linkVars, waitVars, roundVars, deskOffset, fav1, fav2, moveVars, mpc, marg, mop,
                   threadVars, histVars>>

\* ------------------------------------------------ the polling thread
\* linak_device.py:250  while self._running
LoopWhile(i) ==
    /\ loop[i] = "while"
    /\ IF running
         THEN loop' = [loop EXCEPT ![i] = "send"]
         ELSE loop' = [loop EXCEPT ![i] = "done"]
    /\ UNCHANGED <<linkVars, waitVars, roundVars, deskVars, moveVars, mainVars, nmoves, timer, histVars>>

\* linak_device.py:225-228, 251: self._target.bytes is written to MOVE_TO_HANDLE
LoopSend(i) ==
    /\ loop[i] = "send"
    /\ loop' = [loop EXCEPT ![i] = "query"]
    /\ UNCHANGED <<linkVars, waitVars, roundVars, deskVars, moveVars, mainVars, nmoves, timer, histVars>>

\* linak_device.py:252-256 with 168-169: sleep, _query_height_speed, the speed
\* test and, on a stalled sample, the flags of stop_movement
LoopQuery(i) ==
    /\ loop[i] = "query"
    /\ \E h \in Heights, s \in Speeds :
         LET hs == [height |-> h, speed |-> s] IN
         /\ heightSpeed' = Some(hs)
         /\ IF Stalled(hs)
              THEN /\ running' = FALSE /\ manual' = FALSE
                   /\ loop' = [loop EXCEPT ![i] = "stop3"]
              ELSE /\ running' = running /\ manual' = manual
                   /\ loop' = [loop EXCEPT ![i] = "while"]
    /\ UNCHANGED <<linkVars, waitVars, roundVars, deskOffset, fav1, fav2, target, stopTimer, mainVars, nmoves,
                   timer, histVars>>

\* linak_device.py:170, then back to the while test
LoopStop3(i) ==
    /\ loop[i] = "stop3"
    /\ timer' = Cancel(timer, stopTimer)
    /\ loop' = [loop EXCEPT ![i] = "while"]
    /\ UNCHANGED <<linkVars, waitVars, roundVars, deskVars, moveVars, mainVars, nmoves, histVars>>

\* linak_device.py:225-228, 126-129 with connection.py:93-112, 62-64: the
\* write of the move command or the read of the telemetry raises
\* btle.BTLEException; it leaves the `with` block, so __exit__ disconnects,
\* and nothing in _process_movement catches it: the thread ends
LoopFails(i) ==
    /\ loop[i] \in {"send", "query"}
    /\ loop' = [loop EXCEPT ![i] = "failed"]
    /\ LET d == DisconnectEffect IN
         conn' = d[1] /\ linkUp' = d[2] /\ subs' = d[3]
    /\ UNCHANGED <<lpc, nsess, attempts, attOk, wasUp, lres, exitKind, ndisc,
                   waitVars, roundVars, deskVars, moveVars, mainVars, nmoves, timer, histVars>>

\* ------------------------------------------------------- the Timer
\* threading.Timer: the interval elapsed without cancel(), the function
\* stop_movement runs (linak_device.py:242, 168-169)
TimerExpire(i) ==
    /\ timer[i] = "waiting"
    /\ running' = FALSE
    /\ manual' = FALSE
    /\ timer' = [timer EXCEPT ![i] = "stop3"]
    /\ UNCHANGED <<linkVars, waitVars, roundVars, deskVars, target, stopTimer, mainVars, nmoves, loop, histVars>>

\* linak_device.py:170 on the Timer's thread: cancel() of whichever Timer
\* _stop_timer names now, then the Timer's thread ends
TimerStop3(i) ==
    /\ timer[i] = "stop3"
    /\ timer' = [Cancel(timer, stopTimer) EXCEPT ![i] = "finished"]
    /\ UNCHANGED <<linkVars, waitVars, roundVars, deskVars, moveVars, mainVars, nmoves, loop, histVars>>

\* ------------------------------------------------------ specification
MainCall ==
    \/ CallMoveToCm
    \/ CallMoveManual
    \/ CallMoveToFav
    \/ CallStop
    \/ CallCurrentHeight

MainStep ==
    \/ FavResolve
    \/ MvTest
    \/ MvStop3
    \/ MvHeight
    \/ MvRun
    \/ MvTimer
    \/ Stop3

LoopStep(i) ==
    \/ LoopWhile(i)
    \/ LoopSend(i)
    \/ LoopQuery(i)
    \/ LoopStop3(i)
    \/ LoopFails(i)

TimerStep(i) ==
    \/ TimerExpire(i)
    \/ TimerStop3(i)

Notify ==
    \/ NotifyDeskOffset
    \/ NotifyMemory

Next ==
    \/ MainCall
    \/ MainStep
    \/ \E i \in Moves : LoopStep(i)
    \/ \E i \in Moves : TimerStep(i)
    \/ Notify

Spec == Init /\ [][Next]_vars

\* The threads are scheduled: a call in progress, a polling thread and a Timer
\* (its expiry included) each take their next step eventually.  The caller
\* is not obliged to make another call.
FairSpec ==
    /\ Spec
    /\ WF_vars(MainStep)
    /\ \A i \in Moves : WF_vars(LoopStep(i))
    /\ \A i \in Moves : WF_vars(TimerStep(i))

\* ------------------------------------------------------ BTLEConnection
\* One user of the connection at a time enters `with self._conn`, makes its
\* requests and leaves.  A transport call (connect, write, read) succeeds or
\* raises btle.BTLEException.

\* connection.py:34-42, 60  __enter__ is called
Enter ==
    /\ lpc = "out" /\ nsess < MaxSessions
    /\ nsess' = nsess + 1
    /\ attempts' = 0 /\ attOk' = FALSE /\ wasUp' = linkUp
    /\ exitKind' = "none" /\ ndisc' = 0
    /\ IF conn = "None"
         THEN conn' = "Peripheral" /\ lpc' = "connect1" /\ lres' = "none"
         ELSE conn' = conn /\ lpc' = "in" /\ lres' = "ok"
    /\ UNCHANGED <<linkUp, subs, deskVars, movementVars, waitVars, roundVars>>

\* connection.py:44-47  the first self._conn.connect(...)
Connect1 ==
    /\ lpc = "connect1"
    /\ attempts' = attempts + 1
    /\ \E ok \in BOOLEAN :
         IF ok THEN linkUp' = TRUE /\ attOk' = TRUE /\ lpc' = "subscribe"
               ELSE linkUp' = linkUp /\ attOk' = attOk /\ lpc' = "connect2"
    /\ UNCHANGED <<conn, subs, nsess, wasUp, lres, exitKind, ndisc,
                   deskVars, movementVars, waitVars, roundVars>>

\* connection.py:48-52  the retry; its exception leaves __enter__
Connect2 ==
    /\ lpc = "connect2"
    /\ attempts' = attempts + 1
    /\ \E ok \in BOOLEAN :
         IF ok THEN linkUp' = TRUE /\ attOk' = TRUE /\ lpc' = "subscribe" /\ lres' = lres
               ELSE linkUp' = linkUp /\ attOk' = attOk /\ lpc' = "out" /\ lres' = "error"
    /\ UNCHANGED <<conn, subs, nsess, wasUp, exitKind, ndisc,
                   deskVars, movementVars, waitVars, roundVars>>

\* A variant of AllSubscribed that is content with the first handle.
AllSubscribedAfterFirst(s) == Len(s) >= 1

\* connection.py:56-57: the loop over self._callbacks.items() has run through
AllSubscribed(s) == Len(s) = Len(Handlers)

\* connection.py:56-60, 89-91: the next handle of the registry is subscribed
\* (a write to handle + 1); a failed write leaves __enter__ with its exception
Subscribe ==
    /\ lpc = "subscribe"
    /\ \E ok \in BOOLEAN :
         IF ok
           THEN /\ subs' = Append(subs, Handlers[Len(subs) + 1])
                /\ IF AllSubscribed(subs')
                     THEN lpc' = "in" /\ lres' = "ok"
                     ELSE lpc' = lpc /\ lres' = lres
           ELSE subs' = subs /\ lpc' = "out" /\ lres' = "error"
    /\ UNCHANGED <<conn, linkUp, nsess, attempts, attOk, wasUp, exitKind, ndisc,
                   deskVars, movementVars, waitVars, roundVars>>

\* connection.py:62-64 with exc_type None: the block's requests succeeded and
\* the block returns
LeaveNormal ==
    /\ lpc = "in" /\ linkUp
    /\ exitKind' = "normal" /\ ndisc' = 0
    /\ lpc' = "out"
    /\ UNCHANGED <<conn, linkUp, subs, nsess, attempts, attOk, wasUp, lres,
                   deskVars, movementVars, waitVars, roundVars>>

\* connection.py:62-64, 69-72 with an exception: a request raised, the block
\* raised, or the caller was interrupted; __exit__ calls disconnect()
LeaveRaising ==
    /\ lpc = "in"
    /\ \E kind \in {"error", "cancel"} : exitKind' = kind
    /\ LET d == DisconnectEffect IN
         conn' = d[1] /\ linkUp' = d[2] /\ subs' = d[3] /\ ndisc' = d[4]
    /\ lpc' = "out"
    /\ UNCHANGED <<nsess, attempts, attOk, wasUp, lres,
                   deskVars, movementVars, waitVars, roundVars>>

\* linak_device.py:204-205 with connection.py:74-78, 93-103, 62-64: while a
\* request of the block waits for notifications, one arrives on the DPG handle
\* whose first byte is not 0x01.  _handle_dpg_notification raises
\* DPGCommandReadError before it touches a field; handleNotification and
\* make_request (which catches only BTLEException, and re-raises) let it
\* through, it leaves the block and __exit__ disconnects.
RequestMalformed ==
    /\ lpc = "in" /\ linkUp
    /\ \E k \in 1..Len(subs) : subs[k] = "DPG_COMMAND_HANDLE"
    /\ exitKind' = "malformed"
    /\ LET d == DisconnectEffect IN
         conn' = d[1] /\ linkUp' = d[2] /\ subs' = d[3] /\ ndisc' = d[4]
    /\ lpc' = "out"
    /\ UNCHANGED <<nsess, attempts, attOk, wasUp, lres,
                   deskVars, movementVars, waitVars, roundVars>>

\* connection.py:66-72  disconnect() called outside a block (also __del__)
Disconnect ==
    /\ lpc = "out" /\ nsess > 0
    /\ exitKind' = "direct"
    /\ LET d == DisconnectEffect IN
         conn' = d[1] /\ linkUp' = d[2] /\ subs' = d[3] /\ ndisc' = d[4]
    /\ UNCHANGED <<lpc, nsess, attempts, attOk, wasUp, lres,
                   deskVars, movementVars, waitVars, roundVars>>

LinkNext ==
    \/ Enter
    \/ Connect1
    \/ Connect2
    \/ Subscribe
    \/ LeaveNormal
    \/ LeaveRaising
    \/ RequestMalformed
    \/ Disconnect

LinkSpec == Init /\ [][LinkNext]_vars

\* ------------------------------------------- queries and blocking accessors
\* One caller runs _query_memory_positions or a blocking accessor while
\* notifications are handled on the transport's delivery context.

\* The round count after a statement that clears a favourite.
RoundAfterClear(f1, f2) == IF f1 = None /\ f2 = None THEN <<TRUE, <<>>>> ELSE <<FALSE, <<>>>>

\* linak_device.py:58-72, 84-86: a blocking accessor is called
CallGet ==
    /\ qpc = "idle"
    /\ \E f \in WaitFields : wvar' = f
    /\ qpc' = "w_first" /\ qop' = "get"
    /\ wtries' = 0 /\ wres' = "none" /\ wval' = None
    /\ UNCHANGED <<deskVars, roundVars, movementVars, linkVars>>

\* linak_device.py:115-117  _query_memory_positions clears favourite 1
QClear1 ==
    /\ qpc = "idle"
    /\ fav1' = None
    /\ LET r == RoundAfterClear(None, fav2) IN inRound' = r[1] /\ round' = r[2]
    /\ qpc' = "clear2" /\ qop' = "query_memory"
    /\ wvar' = "none" /\ wtries' = 0 /\ wres' = "none" /\ wval' = None
    /\ UNCHANGED <<deskOffset, fav2, heightSpeed, movementVars, linkVars>>

\* linak_device.py:118
QClear2 ==
    /\ qpc = "clear2"
    /\ fav2' = None
    /\ LET r == RoundAfterClear(fav1, None) IN inRound' = r[1] /\ round' = r[2]
    /\ qpc' = "cmd1"
    /\ UNCHANGED <<deskOffset, fav1, heightSpeed, qop, wvar, wtries, wres, wval,
                   movementVars, linkVars>>

\* A variant of AfterCmd that sends the second query without waiting for
\* the first favourite.
AfterCmdNoWait(pc) == IF pc = "cmd1" THEN "cmd2" ELSE "w_first"

\* linak_device.py:121, 124: after each dpg_command comes the wait for the
\* favourite it asked for
AfterCmd(pc) == "w_first"

\* linak_device.py:120-121 and 123-124: dpg_command(PROP_MEMORY_POSITION_n),
\* then the wait for favourite n
QCmd ==
    /\ qpc \in {"cmd1", "cmd2"}
    /\ wvar' = IF qpc = "cmd1" THEN "_fav_position_1" ELSE "_fav_position_2"
    /\ qpc' = AfterCmd(qpc) /\ wtries' = 0
    /\ UNCHANGED <<deskVars, roundVars, qop, wres, wval, movementVars, linkVars>>

\* A variant of IsSet that takes every value for a set one.
IsSetAlways(v) == TRUE

\* linak_device.py:184 and 190:  value is not None
IsSet(v) == v # None

\* where the caller goes on when _wait_for_variable returns a value
AfterWait ==
    IF qop = "query_memory" /\ wvar = "_fav_position_1" THEN "cmd2" ELSE "idle"

\* linak_device.py:183-185: the value is there at the call
WaitFirst ==
    /\ qpc = "w_first"
    /\ IF IsSet(GetAttr(wvar))
         THEN /\ wval' = GetAttr(wvar)
              /\ qpc' = AfterWait
              /\ wres' = IF AfterWait = "idle" THEN "value" ELSE wres
              /\ qop' = IF AfterWait = "idle" THEN "none" ELSE qop
         ELSE /\ qpc' = "w_loop"
              /\ UNCHANGED <<wval, wres, qop>>
    /\ UNCHANGED <<deskVars, roundVars, wvar, wtries, movementVars, linkVars>>

\* linak_device.py:187-193: one pass of the polling loop, the sleep included
WaitLoop ==
    /\ qpc = "w_loop" /\ wtries < WAIT_ATTEMPTS
    /\ IF IsSet(GetAttr(wvar))
         THEN /\ wval' = GetAttr(wvar)
              /\ qpc' = AfterWait
              /\ wres' = IF AfterWait = "idle" THEN "value" ELSE wres
              /\ qop' = IF AfterWait = "idle" THEN "none" ELSE qop
              /\ wtries' = wtries
         ELSE /\ wtries' = wtries + 1
              /\ UNCHANGED <<wval, wres, qop, qpc>>
    /\ UNCHANGED <<deskVars, roundVars, wvar, movementVars, linkVars>>

\* linak_device.py:195: the loop ran out.  Inside _query_memory_positions the
\* error leaves the `with` block, so __exit__ disconnects (connection.py:62-64).
WaitRaise ==
    /\ qpc = "w_loop" /\ wtries = WAIT_ATTEMPTS
    /\ qpc' = "idle" /\ qop' = "none"
    /\ wres' = "DPGCommandReadError" /\ wval' = None
    /\ LET d == IF qop = "query_memory" THEN DisconnectEffect
                ELSE <<conn, linkUp, subs, 0>> IN
         conn' = d[1] /\ linkUp' = d[2] /\ subs' = d[3]
    /\ UNCHANGED <<deskVars, roundVars, wvar, wtries, movementVars,
                   lpc, nsess, attempts, attOk, wasUp, lres, exitKind, ndisc>>

\* linak_device.py:200-218: a reply of the query round (or a stray one) arrives
NotifyReply ==
    /\ \E cls \in {"DeskOffsetCommand", "MemorySetting2Command", "DPGCommand"},
          off \in ReplyRaws : HandleDpgNotification(cls, off)
    /\ UNCHANGED <<waitVars, movementVars, linkVars>>

\* linak_device.py:220-221  _handle_reference_notification
NotifyReference ==
    /\ \E h \in Heights, s \in Speeds :
         heightSpeed' = Some([height |-> h, speed |-> s])
    /\ UNCHANGED <<deskOffset, fav1, fav2, roundVars, waitVars, movementVars, linkVars>>

StateNext ==
    \/ CallGet
    \/ QClear1
    \/ QClear2
    \/ QCmd
    \/ WaitFirst
    \/ WaitLoop
    \/ WaitRaise
    \/ NotifyReply
    \/ NotifyReference

StateSpec == Init /\ [][StateNext]_vars

\* ------------------------------------------------------------ claims

\* C1: superseding move.  Once move_to(B) has superseded movement A, nothing
\* of A stays active: a polling loop passes its `while self._running` test
\* only while its own movement is the current one, and after the call no
\* Timer of an earlier movement is still pending while B is moving.
C1_SupersedingMove ==
    /\ [][\A i \in Moves : (loop[i] = "while" /\ loop'[i] = "send") => i = nmoves]_vars
    /\ [](\A i \in Moves : (mpc = "idle" /\ running /\ i < nmoves) => timer[i] # "waiting")

\* C2: hard cutoff.  With the threads scheduled fairly (the Timer's expiry
\* included), Moving always leads to Idle.
C2_HardCutoff == running ~> ~running

\* C3: stop() is valid in every state.  Whenever stop_movement() returns to
\* the caller it has completed without error, the state is Idle, the manual
\* flag is clear and the Timer _stop_timer names (if any) is not pending.
C3_StopAlwaysValid ==
    [][(mpc = "stop3" /\ mpc' = "idle") =>
         /\ mres' = "ok"
         /\ ~running' /\ ~manual'
         /\ (stopTimer' # 0 => timer'[stopTimer'] # "waiting")]_vars

\* C4: no-op move.  When _move_to_raw finds |target - current height| < 10 it
\* returns at once: the state is Idle, no Timer is created or started, no
\* polling thread is started, target and _stop_timer are untouched; and the
\* state stays Idle until the caller's next call.
C4_NoopMove ==
    /\ [][(/\ mpc = "mv_height" /\ mpc' # mpc
           /\ heightSpeed # None
           /\ Abs(marg - Val(heightSpeed).height) < MOVE_THRESHOLD) =>
          (/\ mpc' = "idle" /\ mres' = "noop"
           /\ ~running'
           /\ UNCHANGED <<target, stopTimer, nmoves, timer, loop>>)]_vars
    /\ [](mres = "noop" => (mpc = "idle" /\ ~running))

\* A no-op move was made after a movement had been started.
C4_Witness == mres = "noop" /\ nmoves > 0 /\ ~running

\* C9: manual moves report no target.  Between calls, while a movement is
\* active, target_height reports no target cm if move_up / move_down started
\* it and the target's cm if move_to_cm / move_to_fav started it.
C9_ManualReportsNoTarget ==
    (mpc = "idle" /\ running) =>
        TargetCm = (IF startedBy = "move_manual" THEN None ELSE target)

\* C10: move_to_fav.  With a favourite number other than 1 or 2 it raises and
\* changes nothing else: no movement state, no Timer, no thread, no desk
\* field, nothing of the connection.  With 1 or 2 and the favourite known it goes on to
\* _move_to_raw with that favourite's raw position.
C10_MoveToFavorite ==
    [][(mpc = "fav" /\ mpc' # mpc) =>
         IF marg \notin {1, 2}
           THEN /\ mpc' = "idle" /\ mres' = "DPGCommandReadError:favorite"
                /\ UNCHANGED <<deskVars, moveVars, threadVars, linkVars>>
           ELSE LET f == IF marg = 1 THEN fav1 ELSE fav2 IN
                f # None => (mpc' = "mv_test" /\ marg' = Val(f)
                             /\ UNCHANGED <<deskVars, moveVars, threadVars>>)]_vars

\* move_to_fav was refused while a movement is running.
C10_Witness == mres = "DPGCommandReadError:favorite" /\ running /\ nmoves > 0

\* C5: connect() retries exactly once.  When a connect() has returned: it made
\* no transport connect if the link was connected at the call; otherwise it
\* made one attempt, a second one exactly when the first failed, never more
\* than two, it fails when both failed, and it succeeds only if one succeeded.
C5_ConnectRetriesOnce ==
    lres # "none" =>
        /\ attempts <= 2
        /\ IF wasUp
             THEN attempts = 0 /\ lres = "ok"
             ELSE /\ attempts >= 1
                  /\ (attempts = 1 => attOk)
                  /\ (lres = "ok" => attOk)
                  /\ (~attOk => (attempts = 2 /\ lres = "error"))

\* C6 as stated: however a session is left (normal return, error,
\* cancellation) the transport disconnect has run exactly once for it.
C6_DisconnectOncePerSession ==
    exitKind \in {"normal", "error", "cancel"} => ndisc = 1

\* C6, amended: a session left by an error or a cancellation runs the
\* transport disconnect exactly once and forgets the connection; a session
\* left by a normal return runs none and keeps the connection open; a direct
\* disconnect() runs it at most once, none when there is no connection, and
\* leaves the link unconnected.
C6_ScopedDisconnect ==
    /\ exitKind \in {"error", "cancel"} => (ndisc = 1 /\ conn = "None" /\ ~linkUp)
    /\ exitKind = "normal" => (ndisc = 0 /\ conn = "Peripheral" /\ linkUp)
    /\ exitKind = "direct" => (ndisc <= 1 /\ conn = "None" /\ ~linkUp)

\* The second session, which found the link connected, was left by a cancellation.
C6_Witness == exitKind = "cancel" /\ ndisc = 1 /\ wasUp /\ nsess >= 2

\* C7: favourites by fill order.  In a fresh round the first memory reply is
\* favorite_1, the second is favorite_2, and a third reply changes neither.
C7_FavoriteFillOrder ==
    inRound =>
        /\ Len(round) = 0 => (fav1 = None /\ fav2 = None)
        /\ Len(round) = 1 => (fav1 = Some(round[1]) /\ fav2 = None)
        /\ Len(round) >= 2 => (fav1 = Some(round[1]) /\ fav2 = Some(round[2]))

\* C8: the blocking accessor.  _wait_for_variable returns at once when the
\* field is set at the call; otherwise it polls at most 100 times and returns
\* the field's value at the first poll that finds it set; it raises only after
\* 100 polls that found it unset; what it returns is never an unset value.
C8_BlockingAccessor ==
    /\ [](wtries <= WAIT_ATTEMPTS)
    /\ [](wres = "value" => wval # None)
    /\ [](wres = "DPGCommandReadError" => (wval = None /\ wtries = WAIT_ATTEMPTS))
    /\ [][(qpc = "w_first" /\ qop = "get" /\ GetAttr(wvar) # None /\ qpc' # qpc) =>
          (qpc' = "idle" /\ wres' = "value" /\ wval' = GetAttr(wvar) /\ wtries' = 0)]_vars
    /\ [][(/\ qpc = "w_loop" /\ qop = "get" /\ GetAttr(wvar) # None
           /\ wtries < WAIT_ATTEMPTS /\ (qpc' # qpc \/ wtries' # wtries)) =>
          (qpc' = "idle" /\ wres' = "value" /\ wval' = GetAttr(wvar))]_vars
    /\ [][(qpc = "w_loop" /\ qpc' = "idle" /\ wres' = "DPGCommandReadError") =>
          wtries = WAIT_ATTEMPTS]_vars

\* The accessor returned a value found at its last poll.
C8_Witness == wres = "value" /\ wval # None /\ wtries = WAIT_ATTEMPTS - 1

\* C11: target_height().  While Idle it returns (None, None); while Moving a
\* target and a telemetry sample exist and the direction it returns is
\* target.raw > current height raw.
C11_TargetHeight ==
    /\ ~running => TargetHeight = <<None, None>>
    /\ running => /\ target # None /\ heightSpeed # None
                  /\ TargetHeight[2] = Some(Val(target) > Val(heightSpeed).height)

\* A movement towards raw 20 is running at height 5: the direction is up.
C11_Witness ==
    /\ running /\ mpc = "idle" /\ target = Some(20)
    /\ Val(heightSpeed).height = 5 /\ TargetHeight[2] = Some(TRUE)

\* C12: at most one polling loop is live.  No two polling threads are at the
\* same time inside an iteration (writing the move command or reading the
\* telemetry).
C12_OnePollingLoop ==
    Cardinality({i \in Moves : loop[i] \in {"send", "query"}}) <= 1

\* C13: prompt loop exit.  A polling thread passes its while test only while
\* the state is Moving, and when an explicit stop_movement() or the Timer's
\* expiry makes the state Idle, at most one move command is still to be
\* written (at most one thread has passed the test and not yet written).
C13_PromptLoopExit ==
    /\ [][\A i \in Moves :
            (loop'[i] = "send" /\ loop[i] # "send") => (loop[i] = "while" /\ running)]_vars
    /\ [][(/\ running /\ ~running'
           /\ \/ mop' = "stop_movement"
              \/ \E i \in Moves : timer[i] = "waiting" /\ timer'[i] = "stop3") =>
          Cardinality({i \in Moves : loop'[i] = "send"}) <= 1]_vars

\* C14: stall detection.  An iteration writes the move command and then reads
\* the telemetry; a sample below the stopped threshold makes the thread call
\* stop_movement(), and when that call has returned the state is Idle and
\* the Timer _stop_timer names is not pending, so that the thread leaves at
\* its next while test; any other sample sends it back to the while test.
C14_StallDetection ==
    /\ [][\A i \in Moves :
            (loop'[i] = "query" /\ loop[i] # "query") => loop[i] = "send"]_vars
    /\ [][\A i \in Moves :
            (loop[i] = "query" /\ loop'[i] # "query") =>
                IF Stalled(Val(heightSpeed'))
                  THEN loop'[i] = "stop3" /\ ~running'
                  ELSE loop'[i] = "while"]_vars
    /\ [][\A i \in Moves :
            (loop[i] = "stop3" /\ loop'[i] # "stop3") =>
                (~running' /\ timer'[stopTimer'] # "waiting")]_vars

\* C15: a failure in the polling loop stops the movement.  When a transport
\* operation of the loop has failed, the state is Idle and the Timer
\* _stop_timer names is no longer pending.
C15_LoopFailureStops ==
    [][\A i \in Moves :
         (loop'[i] = "failed" /\ loop[i] # "failed") =>
             (~running' /\ timer'[stopTimer'] # "waiting")]_vars

\* C16: malformed notifications are contained.  A DPG notification whose
\* first byte is not 0x01, arriving during a request, changes no desk field,
\* lets the block go on (no error reaches the request) and leaves the link
\* connected.
C16_MalformedContained ==
    [][(lpc = "in" /\ exitKind' = "malformed") =>
         (/\ UNCHANGED deskVars
          /\ lpc' = "in"
          /\ UNCHANGED <<conn, linkUp, subs>>)]_vars

\* C17: _query_memory_positions is strictly sequential.  It clears favourite 1,
\* then favourite 2, and only then sends the first query; the second query is
\* reached only from the wait for favourite 1 and with favourite 1 set, and is
\* sent only with favourite 1 set; a wait for favourite 1 that runs out ends
\* the call with the error, the second query unsent.
C17_SequentialRefresh ==
    [][/\ (qpc' = "clear2" /\ qpc # "clear2") => (qpc = "idle" /\ fav1' = None)
       /\ (qpc' = "cmd1" /\ qpc # "cmd1") => (qpc = "clear2" /\ fav2' = None)
       /\ (qpc' = "cmd2" /\ qpc # "cmd2") =>
              (/\ qpc \in {"w_first", "w_loop"}
               /\ wvar = "_fav_position_1" /\ fav1 # None)
       /\ (qpc = "cmd2" /\ qpc' # "cmd2") =>
              (fav1 # None /\ wvar' = "_fav_position_2")
       /\ (/\ qpc = "w_loop" /\ qop = "query_memory" /\ wvar = "_fav_position_1"
           /\ wtries = WAIT_ATTEMPTS /\ qpc' # qpc) =>
              (qpc' = "idle" /\ wres' = "DPGCommandReadError")]_vars

\* The second query has been sent, favourite 1 known, and the wait for
\* favourite 2 is polling.
C17_Witness ==
    /\ qpc = "w_loop" /\ qop = "query_memory" /\ wvar = "_fav_position_2"
    /\ fav1 # None /\ fav2 = None /\ wtries > 0

\* C18: re-subscription on connect.  The handles subscribed on a connection
\* are always a prefix of the registry, in its order, and none when there is
\* no connection; a connect() that established the connection returns only
\* when every handle of the registry is subscribed, so the block's requests
\* run with all of them subscribed.
C18_ResubscribeOnConnect ==
    /\ [](/\ Len(subs) <= Len(Handlers)
          /\ \A k \in 1..Len(subs) : subs[k] = Handlers[k]
          /\ (~linkUp => subs = <<>>)
          /\ ((lpc = "in" /\ attOk) => subs = Handlers))
    /\ [][(lres' = "ok" /\ lres # "ok" /\ attOk') => subs' = Handlers]_vars

\* A later session had to connect again, needed the retry, and is inside its
\* block with every handle subscribed.
C18_Witness ==
    /\ lpc = "in" /\ attOk /\ attempts = 2 /\ nsess >= 2
    /\ subs = Handlers

\* C19: connected means usable.  Outside a connect() in progress the link
\* holds a connection object (so that the next connect() is skipped) only if
\* a transport connect succeeded and every handle of the registry is
\* subscribed on it; in particular a block is entered only on such a link.
C19_ConnectedMeansUsable ==
    (lpc \in {"in", "out"} /\ conn # "None") => (linkUp /\ subs = Handlers)

\* C20: the Timer matches the movement.  Between the caller's calls, while the
\* state is Moving, the Timer armed for the current movement is pending and
\* no Timer of an earlier movement is.
C20_TimerMatchesMovement ==
    (mpc = "idle" /\ running) =>
        /\ stopTimer = nmoves
        /\ timer[nmoves] = "waiting"
        /\ \A i \in Moves : i < nmoves => timer[i] # "waiting"

====
